---- MODULE Spec2Model ----
(***************************************************************************)
(* Model of line_graph (src/src/lib.rs): the construction of the line      *)
(* graph of an undirected petgraph graph.                                  *)
(*                                                                         *)
(* A graph is a record [nodes, edges]: nodes is the sequence of node       *)
(* weights, edges the sequence of records [node |-> <<a, b>>, weight].     *)
(* Node and edge indices are zero-based as in petgraph, so the node with   *)
(* index i is nodes[i + 1] and the edge with index j is edges[j + 1].      *)
(*                                                                         *)
(* One call of line_graph is one behaviour: Init is the state on entry,    *)
(* every execution of a loop body is one action, and so is every loop      *)
(* exit.  The loop heads of the nested loops of lines 47-49 (iterators     *)
(* that yield nothing) are folded into the action that precedes them.      *)
(***************************************************************************)
EXTENDS Integers, Sequences, FiniteSets, TLC

VARIABLES
    g,            \* the input graph (borrowed immutably)
    g_before,     \* ghost: the input graph as it was on entry
    line_graph,   \* the output graph under construction
    pc,           \* "nodes", "edges", "weights", "done" or "panic"
    k,            \* number of iterations of the loop of line 44 completed
    nidx,         \* index of the node of g being processed (line 47)
    s,            \* position of e1 in g.edges(nidx)  (line 48)
    t,            \* position of e2 in g.edges(nidx)  (line 49)
    ei,           \* index of the next edge of g.edge_references() (line 63)
    origin,       \* ghost: for each output edge, the nidx that added it
    writes        \* ghost: for each output node, the assignments of line 74

vars == <<g, g_before, line_graph, pc, k, nidx, s, t, ei, origin, writes>>

---------------------------------------------------------------------------
(* Bounds of the model *)

\* The input graphs with arbitrary endpoints and weights have at most
\* MaxNodes nodes ...
MaxNodes == 3
\* ... and at most MaxEdges edges.
MaxEdges == 2
\* Width in bits of the output index type.  DefaultIx is u32; the width is
\* scaled down so that the capacity of the index type can be reached.
IxBits == 4

---------------------------------------------------------------------------
(* The graph container (petgraph), as far as line_graph uses it *)

\* E::default(), the placeholder weight of line 45
Default == 0

\* largest index of the output index type; petgraph reserves it as the
\* "end" marker, so a graph holds at most IndexMax nodes and IndexMax edges
IndexMax == 2^IxBits - 1

\* UnGraph::with_capacity(g.edge_count(), 0): the empty graph
with_capacity == [nodes |-> <<>>, edges |-> <<>>]

node_count(gr) == Len(gr.nodes)

edge_count(gr) == Len(gr.edges)

\* EdgeIndexable::to_index: the position of an edge index
to_index(e) == e

\* NodeIndexable::from_index: NodeIndex::new(i), which casts i to the
\* index type (i as u32)
from_index(i) == i % (2^IxBits)

\* add_node succeeds unless the index type is exhausted
can_add_node(gr) == Len(gr.nodes) # IndexMax

add_node(gr, w) == [gr EXCEPT !.nodes = Append(@, w)]

\* add_edge succeeds unless the index type is exhausted or an endpoint
\* is out of bounds
can_add_edge(gr, a, b) ==
    /\ Len(gr.edges) # IndexMax
    /\ a < Len(gr.nodes)
    /\ b < Len(gr.nodes)

add_edge(gr, a, b, w) ==
    [gr EXCEPT !.edges = Append(@, [node |-> <<a, b>>, weight |-> w])]

\* The indices, from i - 1 down to 0, of the edges that leave node a.
\* petgraph links every new edge at the head of its endpoints' lists.
RECURSIVE outgoing(_, _, _)
outgoing(gr, a, i) ==
    IF i = 0 THEN <<>>
    ELSE (IF gr.edges[i].node[1] = a THEN <<i - 1>> ELSE <<>>)
         \o outgoing(gr, a, i - 1)

\* The indices, from i - 1 down to 0, of the edges that enter node a,
\* self-loops skipped: they are already in the outgoing list.
RECURSIVE incoming(_, _, _)
incoming(gr, a, i) ==
    IF i = 0 THEN <<>>
    ELSE (IF gr.edges[i].node[2] = a /\ gr.edges[i].node[1] # a
          THEN <<i - 1>> ELSE <<>>)
         \o incoming(gr, a, i - 1)

\* Variant of edges: the edges of a directed graph, the outgoing list alone.
edges_outgoing(gr, a) == outgoing(gr, a, Len(gr.edges))

\* g.edges(a) of an undirected graph: the outgoing list, then the incoming
edges(gr, a) ==
    outgoing(gr, a, Len(gr.edges)) \o incoming(gr, a, Len(gr.edges))

---------------------------------------------------------------------------
(* line_graph *)

\* Variant of NodeTarget: one output node per node of g.
NodeTarget_nodes == node_count(g)

\* the bound of the loop of line 44
NodeTarget == edge_count(g)

\* Variants of SkipTo: skip(s), which pairs every edge with itself too, and
\* skip(s + 2), which misses the neighbouring pairs.
SkipTo_same(p) == p

SkipTo_far(p) == p + 2

\* skip(s + 1) of line 49: the first position of e2 for e1 at position s
SkipTo(p) == p + 1

\* The loop heads of lines 47-49: from position (n, p, q), the next position
\* at which the body of line 50-58 runs; n = node_count(g) when none is left.
RECURSIVE Settle(_, _, _)
Settle(n, p, q) ==
    IF n >= node_count(g) THEN <<node_count(g), 0, 0>>
    ELSE IF p >= Len(edges(g, n)) THEN Settle(n + 1, 0, SkipTo(0))
    ELSE IF q >= Len(edges(g, n)) THEN Settle(n, p + 1, SkipTo(p + 1))
    ELSE <<n, p, q>>

\* Variant of EdgeWeightOf: the weight of the first node of g.
EdgeWeightOf_first(n) == g.nodes[1]

\* the weight given to the output edge of line 58
EdgeWeightOf(n) == g.nodes[n + 1]

\* Variant of TargetNode: every weight is written to the first output node.
TargetNode_first(e) == from_index(0)

\* the output node written at line 73-74 for the edge with index e
TargetNode(e) == from_index(to_index(e))

\* Variant of NodeWeightOf: the placeholder is written again.
NodeWeightOf_default(e) == Default

\* the weight written at line 74 for the edge with index e
NodeWeightOf(e) == g.edges[e + 1].weight

\* line 45: one iteration of the first loop
AddNode ==
    /\ pc = "nodes"
    /\ k < NodeTarget
    /\ IF can_add_node(line_graph)
       THEN /\ line_graph' = add_node(line_graph, Default)
            /\ writes' = Append(writes, 0)
            /\ k' = k + 1
            /\ pc' = pc
       ELSE /\ pc' = "panic"
            /\ UNCHANGED <<line_graph, writes, k>>
    /\ UNCHANGED <<g, g_before, nidx, s, t, ei, origin>>

\* line 44 -> 47: the first loop ends, the second starts
NodesDone ==
    /\ pc = "nodes"
    /\ k = NodeTarget
    /\ pc' = "edges"
    /\ LET pos == Settle(0, 0, SkipTo(0))
       IN  nidx' = pos[1] /\ s' = pos[2] /\ t' = pos[3]
    /\ UNCHANGED <<g, g_before, line_graph, k, ei, origin, writes>>

\* lines 50-58: one iteration of the innermost loop
AddEdge ==
    /\ pc = "edges"
    /\ nidx < node_count(g)
    /\ LET e1 == edges(g, nidx)[s + 1]
           e2 == edges(g, nidx)[t + 1]
           v1 == from_index(to_index(e1))
           v2 == from_index(to_index(e2))
       IN  IF can_add_edge(line_graph, v1, v2)
           THEN /\ line_graph' = add_edge(line_graph, v1, v2, EdgeWeightOf(nidx))
                /\ origin' = Append(origin, nidx)
                /\ LET pos == Settle(nidx, s, t + 1)
                   IN  nidx' = pos[1] /\ s' = pos[2] /\ t' = pos[3]
                /\ pc' = pc
           ELSE /\ pc' = "panic"
                /\ UNCHANGED <<line_graph, origin, nidx, s, t>>
    /\ UNCHANGED <<g, g_before, k, ei, writes>>

\* line 47 -> 63: the second loop ends, the third starts
EdgesDone ==
    /\ pc = "edges"
    /\ nidx = node_count(g)
    /\ pc' = "weights"
    /\ ei' = 0
    /\ UNCHANGED <<g, g_before, line_graph, k, nidx, s, t, origin, writes>>

\* Variant of SetWeight: the weight is moved out of g, not cloned.
SetWeight_take ==
    /\ pc = "weights"
    /\ ei < edge_count(g)
    /\ LET id == TargetNode(ei)
       IN  IF id < node_count(line_graph)
           THEN /\ line_graph' =
                      [line_graph EXCEPT !.nodes[id + 1] = NodeWeightOf(ei)]
                /\ g' = [g EXCEPT !.edges[ei + 1].weight = Default]
                /\ writes' = [writes EXCEPT ![id + 1] = @ + 1]
                /\ ei' = ei + 1
                /\ pc' = pc
           ELSE /\ pc' = "panic"
                /\ UNCHANGED <<g, line_graph, writes, ei>>
    /\ UNCHANGED <<g_before, k, nidx, s, t, origin>>

\* lines 64-74: one iteration of the third loop
SetWeight ==
    /\ pc = "weights"
    /\ ei < edge_count(g)
    /\ LET id == TargetNode(ei)
       IN  IF id < node_count(line_graph)
           THEN /\ line_graph' =
                      [line_graph EXCEPT !.nodes[id + 1] = NodeWeightOf(ei)]
                /\ writes' = [writes EXCEPT ![id + 1] = @ + 1]
                /\ ei' = ei + 1
                /\ pc' = pc
           ELSE /\ pc' = "panic"
                /\ UNCHANGED <<line_graph, writes, ei>>
    /\ UNCHANGED <<g, g_before, k, nidx, s, t, origin>>

\* line 76: the third loop ends and the graph is returned
Return ==
    /\ pc = "weights"
    /\ ei = edge_count(g)
    /\ pc' = "done"
    /\ UNCHANGED <<g, g_before, line_graph, k, nidx, s, t, ei, origin, writes>>

---------------------------------------------------------------------------
(* The inputs *)

\* Weights are only cloned, never inspected: every node of g gets a weight
\* of its own, and so does every edge, except that edge weights may equal
\* the default.
NodeWeight(i) == <<"n", i>>

\* the weight of the edge with index j: the default when dflt holds
EdgeWeight(j, dflt) == IF dflt THEN Default ELSE j + 1

Endpoints(n) == (0 .. n - 1) \X (0 .. n - 1)

\* the graph of n nodes whose edges have the endpoints es, those of the
\* edges at the positions in ds weighted with the default
MakeGraph(n, es, ds) ==
    [nodes |-> [i \in 1 .. n |-> NodeWeight(i - 1)],
     edges |-> [j \in 1 .. Len(es) |->
                  [node |-> es[j], weight |-> EdgeWeight(j - 1, j \in ds)]]]

\* every graph with at most MaxNodes nodes and at most MaxEdges edges
SmallGraphs ==
    { MakeGraph(c[1], c[2], c[3]) :
        c \in UNION { UNION { {n} \X [1 .. m -> Endpoints(n)] \X SUBSET (1 .. m) :
                              m \in 0 .. MaxEdges } :
                      n \in 0 .. MaxNodes } }

\* every graph with one or two nodes and one edge more than MaxEdges
DenseGraphs ==
    { MakeGraph(c[1], c[2], c[3]) :
        c \in UNION { {n} \X [1 .. MaxEdges + 1 -> Endpoints(n)]
                          \X SUBSET (1 .. MaxEdges + 1) :
                      n \in 1 .. 2 } }

\* m parallel edges between two nodes, up to one more than the output
\* index type can hold
Bundles ==
    { MakeGraph(2, [j \in 1 .. m |-> <<0, 1>>], {1}) : m \in 0 .. IndexMax + 1 }

\* UnGraph::<(), ()>::from_edges: every edge weight is the default
from_edges(n, es) == MakeGraph(n, es, 1 .. Len(es))

\* the graphs of the documentation (line 20) and of the tests (lines 86, 101)
TestGraphs ==
    { from_edges(3, << <<0, 1>>, <<1, 2>>, <<2, 0>> >>),
      from_edges(2, << <<0, 1>>, <<0, 1>>, <<0, 1>> >>),
      from_edges(5, << <<0, 1>>, <<0, 2>>, <<0, 3>>,
                       <<1, 4>>, <<2, 3>>, <<3, 4>> >>) }

Init ==
    /\ g \in SmallGraphs \cup DenseGraphs \cup Bundles \cup TestGraphs
    /\ g_before = g
    /\ line_graph = with_capacity
    /\ pc = "nodes"
    /\ k = 0
    /\ nidx = 0
    /\ s = 0
    /\ t = 0
    /\ ei = 0
    /\ origin = <<>>
    /\ writes = <<>>

Next ==
    \/ AddNode
    \/ NodesDone
    \/ AddEdge
    \/ EdgesDone
    \/ SetWeight
    \/ Return

Spec == Init /\ [][Next]_vars

---------------------------------------------------------------------------
(* Properties *)

\* the indices of the edges and of the nodes of a graph
EdgeIds(gr) == 0 .. Len(gr.edges) - 1

NodeIds(gr) == 0 .. Len(gr.nodes) - 1

\* the set of the endpoints of the edge of g with index j
EndSet(j) == {g.edges[j + 1].node[1], g.edges[j + 1].node[2]}

\* the number of edges of g incident to node v, every edge counted once
Deg(v) == Cardinality({j \in EdgeIds(g) : v \in EndSet(j)})

Choose2(d) == (d * (d - 1)) \div 2

\* the sum of Choose2(Deg(v)) over the nodes v < n of g
RECURSIVE SumChoose2(_)
SumChoose2(n) == IF n = 0 THEN 0 ELSE Choose2(Deg(n - 1)) + SumChoose2(n - 1)

\* the positions of the output edges that join the output nodes a and b
Joining(a, b) ==
    {x \in 1 .. Len(line_graph.edges) :
        {line_graph.edges[x].node[1], line_graph.edges[x].node[2]} = {a, b}}

\* the positions of the output edges added while node v was processed
AddedAt(v) == {x \in 1 .. Len(origin) : origin[x] = v}

\* C1: the returned graph has exactly as many nodes as g has edges, and
\* the output node of the edge with index j is the node with index j.
C1_NodeCount ==
    pc = "done" =>
        /\ node_count(line_graph) = edge_count(g)
        /\ \A j \in EdgeIds(g) : TargetNode(j) = j /\ j \in NodeIds(line_graph)

C1_Witness ==
    pc = "done" /\ edge_count(g) = 3 /\ node_count(g) = 2

\* C2: in the returned graph the number of edges joining the output nodes
\* of two distinct edges of g is the number of distinct nodes of g that are
\* endpoints of both: 0, 1 or 2; parallel output edges are kept.
C2_Multiplicity ==
    pc = "done" =>
        \A i, j \in EdgeIds(g) :
            i # j => Cardinality(Joining(i, j))
                       = Cardinality(EndSet(i) \cap EndSet(j))

\* two parallel edges (joined twice), next to a self-loop and a non-loop
\* edge at its node (joined once), in one returned graph
C2_Witness ==
    /\ pc = "done"
    /\ \E i, j \in EdgeIds(g) :
          /\ i # j
          /\ Cardinality(EndSet(i) \cap EndSet(j)) = 2
          /\ Cardinality(Joining(i, j)) = 2

C2_WitnessLoop ==
    /\ pc = "done"
    /\ \E i, j \in EdgeIds(g) :
          /\ i # j
          /\ Cardinality(EndSet(i)) = 1
          /\ Cardinality(EndSet(j)) = 2
          /\ Cardinality(Joining(i, j)) = 1

C2_WitnessApart ==
    /\ pc = "done"
    /\ \E i, j \in EdgeIds(g) :
          /\ i # j
          /\ EndSet(i) \cap EndSet(j) = {}
          /\ Joining(i, j) = {}

\* C3: in the returned graph the weight of output node j is the weight of
\* the edge of g with index j.
C3_NodeWeights ==
    pc = "done" =>
        \A j \in EdgeIds(g) : line_graph.nodes[j + 1] = g.edges[j + 1].weight

\* one node whose edge weight is the default and one whose is not
C3_Witness ==
    /\ pc = "done"
    /\ \E i, j \in EdgeIds(g) :
          /\ g.edges[i + 1].weight = Default
          /\ g.edges[j + 1].weight # Default
          /\ line_graph.nodes[j + 1] # Default

\* C4: the number of output edges added while node v of g was processed is
\* C(Deg(v), 2), and the returned graph has the sum of these as its number
\* of edges.
C4_DegreeSum ==
    pc = "done" =>
        /\ \A v \in NodeIds(g) : Cardinality(AddedAt(v)) = Choose2(Deg(v))
        /\ edge_count(line_graph) = SumChoose2(node_count(g))

\* a node with a self-loop among its three edges, and a node of degree 1
C4_Witness ==
    /\ pc = "done"
    /\ \E v, u \in NodeIds(g) :
          /\ Deg(v) = 3
          /\ \E j \in EdgeIds(g) : EndSet(j) = {v}
          /\ Cardinality(AddedAt(v)) = 3
          /\ Deg(u) = 1
          /\ AddedAt(u) = {}

\* C5: every output edge carries the weight of the node of g during whose
\* processing it was added, and that node is an endpoint of both input
\* edges the output edge joins.
C5_EdgeWeights ==
    \A x \in 1 .. Len(line_graph.edges) :
        LET e == line_graph.edges[x]
        IN  /\ e.node[1] \in EdgeIds(g)
            /\ e.node[2] \in EdgeIds(g)
            /\ origin[x] \in EndSet(e.node[1]) \cap EndSet(e.node[2])
            /\ e.weight = g.nodes[origin[x] + 1]

\* output edges weighted by two different nodes of g
C5_Witness ==
    /\ pc = "done"
    /\ \E x, y \in 1 .. Len(line_graph.edges) :
          line_graph.edges[x].weight # line_graph.edges[y].weight

\* C6: g is never mutated: in every state of a call it is what it was on
\* entry.
C6_InputUnchanged == g = g_before

C6_Witness ==
    /\ pc = "done"
    /\ edge_count(line_graph) > 0
    /\ \E j \in EdgeIds(g) : line_graph.nodes[j + 1] # Default

\* C7: line_graph is total: no call aborts.
C7_Total == pc # "panic"

\* Part of C7 that holds: a call aborts only where the output index type
\* is exhausted; no edge index lacks its output node.
C7_AbortOnlyAtCapacity ==
    pc = "panic" =>
        \/ node_count(line_graph) = IndexMax
        \/ edge_count(line_graph) = IndexMax

\* C8: no edge of the output graph is a self-loop.
C8_NoSelfLoop ==
    \A x \in 1 .. Len(line_graph.edges) :
        line_graph.edges[x].node[1] # line_graph.edges[x].node[2]

\* a self-loop of g at a node with another edge, after the node's pairs
\* were added
C8_Witness ==
    /\ pc = "done"
    /\ \E j \in EdgeIds(g), v \in NodeIds(g) :
          /\ EndSet(j) = {v}
          /\ Deg(v) >= 2
          /\ AddedAt(v) # {}

\* C9: every output node is created with the default weight and is written
\* exactly once before the graph is returned: the third loop writes node j
\* in its iteration j and no other.
C9_WrittenOnce ==
    /\ Len(writes) = node_count(line_graph)
    /\ pc \in {"nodes", "edges"} =>
          \A j \in NodeIds(line_graph) :
              writes[j + 1] = 0 /\ line_graph.nodes[j + 1] = Default
    /\ pc \in {"weights", "done"} =>
          \A j \in NodeIds(line_graph) :
              writes[j + 1] = (IF j < ei THEN 1 ELSE 0)
    /\ pc = "done" => \A j \in NodeIds(line_graph) : writes[j + 1] = 1

C9_Witness ==
    /\ pc = "done"
    /\ node_count(line_graph) = 3
    /\ \A j \in NodeIds(line_graph) : writes[j + 1] = 1

C10_Step ==
    /\ edge_count(line_graph') > edge_count(line_graph) =>
          /\ node_count(line_graph) = edge_count(g)
          /\ \A x \in 1 .. Len(line_graph'.edges) :
                /\ line_graph'.edges[x].node[1] \in NodeIds(line_graph)
                /\ line_graph'.edges[x].node[2] \in NodeIds(line_graph)
          /\ \A j \in 1 .. Len(writes) : writes[j] = 0
    /\ writes' # writes /\ Len(writes') = Len(writes) =>
          /\ node_count(line_graph) = edge_count(g)
          /\ edge_count(line_graph) = SumChoose2(node_count(g))
          /\ edge_count(line_graph') = edge_count(line_graph)
    /\ node_count(line_graph') # node_count(line_graph) =>
          /\ pc = "nodes"
          /\ edge_count(line_graph) = 0
          /\ \A j \in 1 .. Len(writes) : writes[j] = 0

\* C10: the three loops run one after the other: an output edge is added
\* only when all output nodes exist, its endpoints among them, and no
\* weight is written yet; a weight is written only when every output edge
\* was added; the nodes of the output graph do not change in number after
\* the first loop.
C10_PhaseOrder == [][C10_Step]_vars

\* the first weight is written, all nodes and edges of the output in place
C10_Witness ==
    /\ pc = "weights"
    /\ ei = 1
    /\ edge_count(line_graph) = 3
    /\ node_count(line_graph) = 3

====
